---- MODULE Spec2Model ----
(***************************************************************************)
(* A model of the sudoku crate (src/src/lib.rs): the Sudoku board, its     *)
(* constructor, cell access, bulk population, the validator, the three     *)
(* iterators and the line structure of the Debug renderer.                 *)
(*                                                                         *)
(* Option<u32> is modelled as a sequence: None is <<>> and Some(v) is      *)
(* <<v>>.  Text is a sequence of one-character strings.  usize is modelled *)
(* UsizeBits wide; a u32 is always narrower than the numbers used here, so *)
(* the casts between u32 and usize are lossless as on 32/64-bit targets.   *)
(* A panic of the program is the terminal status "panicked".               *)
(***************************************************************************)
EXTENDS Integers, Sequences, FiniteSets, TLC

VARIABLES
    size,        \* Sudoku.size
    sec_width,   \* Sudoku.sec_width
    sec_height,  \* Sudoku.sec_height
    grid,        \* Sudoku.grid, grid[row][col], both zero-based
    status,      \* "start" (nothing constructed), "board", "err", "panicked"
    last,        \* the last call: its name, arguments and what it returned
    nset,        \* number of set calls so far
    npop,        \* number of populate_from_str calls so far
    iter,        \* the live iterator (its struct fields), or NoIter
    yielded,     \* what the iterator's next() calls returned, in order
    reads        \* the (col, row) pairs the iterator passed to get, in order

vars == <<size, sec_width, sec_height, grid, status, last, nset, npop, iter, yielded, reads>>

----------------------------------------------------------------------------
(* Bounds of the model *)

UsizeBits == 3      \* width of the modelled machine word
MaxArg == 4         \* Sudoku::new arguments explored where boards are used
MaxSets == 1        \* set calls per run
MaxPopulates == 2   \* populate_from_str calls per run
MaxTextLen == 3     \* characters of an enumerated population text
MaxExtraNext == 1   \* next() calls made after an iterator is exhausted
WideValue == 10     \* a u32 with more decimal digits than any size explored

UsizeModulus == 2 ^ UsizeBits
Usize == 0 .. (UsizeModulus - 1)

----------------------------------------------------------------------------
(* Option<u32>, results and panics *)

None == <<>>
Some(v) == <<v>>

Panic == [panic |-> TRUE]
Return(v) == [panic |-> FALSE, value |-> v]

Ok == [ok |-> TRUE]
Err(kind) == [ok |-> FALSE, err |-> kind]

----------------------------------------------------------------------------
(* Sudoku::new *)

\* usize multiplication: the mathematical product when it fits the word;
\* otherwise a build with overflow checks panics and a build without wraps.
UsizeMul(a, b) ==
    IF a * b < UsizeModulus
    THEN {Return(a * b)}
    ELSE {Panic, Return((a * b) % UsizeModulus)}

\* The results Sudoku::new(s, w, h) can produce.
SudokuNew(s, w, h) ==
    IF s < 1 THEN {Return(Err("InvalidSize"))}
    ELSE IF w < 1 THEN {Return(Err("InvalidSecWidth"))}
    ELSE IF h < 1 THEN {Return(Err("InvalidSecHeight"))}
    ELSE { IF m.panic THEN Panic
           ELSE IF m.value # s THEN Return(Err("InvalidCombination"))
           ELSE Return(Ok) : m \in UsizeMul(w, h) }

\* vec![vec![None; size]; size]
EmptyGrid(n) == [row \in 0 .. (n - 1) |-> [col \in 0 .. (n - 1) |-> None]]

NoIter == [kind |-> "none"]

New(s, w, h) ==
    /\ status = "start"
    /\ \E r \in SudokuNew(s, w, h) :
         /\ last' = [op |-> "new", size |-> s, sec_width |-> w, sec_height |-> h, ret |-> r]
         /\ IF r.panic
            THEN /\ status' = "panicked"
                 /\ UNCHANGED <<size, sec_width, sec_height, grid>>
            ELSE IF r.value.ok
            THEN /\ status' = "board"
                 /\ size' = s
                 /\ sec_width' = w
                 /\ sec_height' = h
                 /\ grid' = EmptyGrid(s)
            ELSE /\ status' = "err"
                 /\ UNCHANGED <<size, sec_width, sec_height, grid>>
    /\ UNCHANGED <<nset, npop, iter, yielded, reads>>

Start ==
    /\ size = 0
    /\ sec_width = 0
    /\ sec_height = 0
    /\ grid = <<>>
    /\ status = "start"
    /\ last = [op |-> "none"]
    /\ nset = 0
    /\ npop = 0
    /\ iter = NoIter
    /\ yielded = <<>>
    /\ reads = <<>>

\* Sudoku::new called with any three machine words.
NextNew == \E s \in Usize, w \in Usize, h \in Usize : New(s, w, h)

SpecNew == Start /\ [][NextNew]_vars

----------------------------------------------------------------------------
(* Cell access *)

InGrid(g, col, row) == row \in DOMAIN g /\ col \in DOMAIN g[row]

\* self.grid[row][col]; indexing outside the vectors panics
get(g, col, row) == IF InGrid(g, col, row) THEN Return(g[row][col]) ELSE Panic

set_transposed(g, col, row, v) == [g EXCEPT ![col][row] = v]

\* self.grid[row][col] = v, for (col, row) inside the grid
set(g, col, row, v) == [g EXCEPT ![row][col] = v]

\* The u32 values handed to set: all of [1, n], both neighbours of that
\* range, and one value with more decimal digits than n.
CellValues(n) == {None} \cup {Some(v) : v \in 0 .. (n + 1)} \cup {Some(WideValue)}

Set(col, row, v) ==
    /\ status = "board"
    /\ iter = NoIter
    /\ nset < MaxSets
    /\ grid' = set(grid, col, row, v)
    /\ last' = [op |-> "set", col |-> col, row |-> row, v |-> v]
    /\ nset' = nset + 1
    /\ UNCHANGED <<size, sec_width, sec_height, status, npop, iter, yielded, reads>>

----------------------------------------------------------------------------
(* Sudoku::populate_from_str *)

NL == "\n"

\* char::is_whitespace, on the characters used here
IsWhitespace(c) == c \in {" ", "\t", "\r", NL}

\* str::split(sep): the pieces between the separators; always at least one.
\* SplitFrom scans s from index i on, piece being the piece read so far.
RECURSIVE SplitFrom(_, _, _, _)
SplitFrom(s, sep, i, piece) ==
    IF i > Len(s) THEN <<piece>>
    ELSE IF s[i] = sep THEN <<piece>> \o SplitFrom(s, sep, i + 1, <<>>)
    ELSE SplitFrom(s, sep, i + 1, Append(piece, s[i]))

Split(s, sep) == SplitFrom(s, sep, 1, <<>>)

\* str::split_whitespace: the maximal non-empty runs of non-whitespace.
\* SplitWhitespaceFrom scans s from index i on, word being the run read so far.
RECURSIVE SplitWhitespaceFrom(_, _, _)
SplitWhitespaceFrom(s, i, word) ==
    LET done == IF word = <<>> THEN <<>> ELSE <<word>>
    IN  IF i > Len(s) THEN done
        ELSE IF IsWhitespace(s[i]) THEN done \o SplitWhitespaceFrom(s, i + 1, <<>>)
        ELSE SplitWhitespaceFrom(s, i + 1, Append(word, s[i]))

SplitWhitespace(s) == SplitWhitespaceFrom(s, 1, <<>>)

\* char::to_digit(10); -1 stands for no digit
ToDigit(c) ==
    CASE c = "0" -> 0 [] c = "1" -> 1 [] c = "2" -> 2 [] c = "3" -> 3 [] c = "4" -> 4
      [] c = "5" -> 5 [] c = "6" -> 6 [] c = "7" -> 7 [] c = "8" -> 8 [] c = "9" -> 9
      [] OTHER -> -1

RECURSIVE Accumulate(_, _)
Accumulate(digits, acc) ==
    IF digits = <<>> THEN acc
    ELSE Accumulate(Tail(digits), acc * 10 + ToDigit(digits[1]))

\* str::parse::<u32>: an optional "+", then one or more decimal digits.  The
\* tokens here are far too short for the checked arithmetic to overflow.
ParseU32(word) ==
    IF word = <<>> THEN Err("Empty")
    ELSE LET digits == IF word[1] = "+" THEN Tail(word) ELSE word
         IN  IF digits = <<>> THEN Err("InvalidDigit")
             ELSE IF \E i \in 1 .. Len(digits) : ToDigit(digits[i]) < 0
             THEN Err("InvalidDigit")
             ELSE [ok |-> TRUE, v |-> Accumulate(digits, 0)]

EntryFromZero(value, n) ==
    IF value = <<"_">> THEN Return(None)
    ELSE LET p == ParseU32(value)
         IN  IF p.ok /\ p.v >= 0 /\ p.v <= n THEN Return(Some(p.v)) ELSE Panic

\* the match of lines 82-92: the entry a token stands for, or a panic
Entry(value, n) ==
    IF value = <<"_">> THEN Return(None)
    ELSE LET p == ParseU32(value)
         IN  IF p.ok /\ p.v > 0 /\ p.v <= n THEN Return(Some(p.v)) ELSE Panic

\* the inner loop: the tokens of one line from index col (zero-based) on
RECURSIVE PopulateCols(_, _, _, _, _)
PopulateCols(g, n, row, cols, col) ==
    IF col = Len(cols) THEN [panic |-> FALSE, grid |-> g]
    ELSE LET e == Entry(cols[col + 1], n)
         IN  IF e.panic THEN [panic |-> TRUE, grid |-> g]
             ELSE PopulateCols(set(g, col, row, e.value), n, row, cols, col + 1)

\* the outer loop: the lines from index row (zero-based) on
RECURSIVE PopulateRows(_, _, _, _)
PopulateRows(g, n, lines, row) ==
    IF row = Len(lines) THEN [panic |-> FALSE, grid |-> g]
    ELSE LET cols == SplitWhitespace(lines[row + 1])
         IN  IF n # Len(cols) THEN [panic |-> TRUE, grid |-> g]
             ELSE LET r == PopulateCols(g, n, row, cols, 0)
                  IN  IF r.panic THEN r ELSE PopulateRows(r.grid, n, lines, row + 1)

\* populate_from_str on grid g of a board of size n: whether it panicked and
\* the grid it leaves (the cells stored before a panic stay stored)
populate_from_str(g, n, s) ==
    LET lines == Split(s, NL)
    IN  IF n # Len(lines) THEN [panic |-> TRUE, grid |-> g]
        ELSE PopulateRows(g, n, lines, 0)

Populate(s) ==
    /\ status = "board"
    /\ iter = NoIter
    /\ npop < MaxPopulates
    /\ LET r == populate_from_str(grid, size, s)
       IN  /\ grid' = r.grid
           /\ status' = IF r.panic THEN "panicked" ELSE "board"
           /\ last' = [op |-> "populate_from_str", s |-> s, panic |-> r.panic]
    /\ npop' = npop + 1
    /\ UNCHANGED <<size, sec_width, sec_height, nset, iter, yielded, reads>>

\* Input texts: every string of at most MaxTextLen characters over Chars,
\* and a few longer ones that fill the larger boards.
Chars == {"_", "0", "1", "2", "x", "+", " ", NL}

RECURSIVE Strings(_)
Strings(n) ==
    IF n = 0 THEN {<<>>}
    ELSE LET shorter == Strings(n - 1)
         IN  shorter \cup {Append(s, c) : s \in {t \in shorter : Len(t) = n - 1}, c \in Chars}

JoinLines(a, b) == a \o <<NL>> \o b

LongTexts ==
    { <<"1">>,
      JoinLines(<<"1", " ", "2">>, <<"2", " ", "1">>),
      JoinLines(<<"_", " ", "2">>, <<" ", "1", " ", " ", "_">>),
      JoinLines(<<"1", " ", "2">>, <<"2", " ", "3">>),
      JoinLines(<<"1", " ", "1">>, <<"2">>),
      JoinLines(<<"1", " ", "1">>, <<"_", " ", "_">>),
      JoinLines(<<"2", " ", "1">>, JoinLines(<<"1", " ", "2">>, <<>>)),
      JoinLines(<<"1", " ", "2", " ", "3">>,
        JoinLines(<<"_", " ", "3", " ", "1">>, <<"3", " ", "1", " ", "_">>)),
      JoinLines(<<"1", " ", "2", " ", "3", " ", "4">>,
        JoinLines(<<"3", " ", "4", " ", "1", " ", "2">>,
          JoinLines(<<"2", " ", "1", " ", "4", " ", "3">>,
                    <<"4", " ", "3", " ", "2", " ", "1">>))),
      JoinLines(<<"1", " ", "2", " ", "3", " ", "4">>,
        JoinLines(<<"2", " ", "3", " ", "4", " ", "1">>,
          JoinLines(<<"3", " ", "4", " ", "1", " ", "2">>,
                    <<"4", " ", "1", " ", "2", " ", "3">>))) }

Texts == Strings(MaxTextLen) \cup LongTexts

\* the long texts with as many lines as a board of size n has rows
FittingTexts(n) == {s \in LongTexts : Len(Split(s, NL)) = n}

----------------------------------------------------------------------------
(* The iterators.  Self(...) is the Sudoku value an iterator borrows. *)

Self(n, w, h, g) == [size |-> n, sec_width |-> w, sec_height |-> h, grid |-> g]

\* self.grid.len() and self.grid[0].len()
height(b) == Cardinality(DOMAIN b.grid)
width(b) == Cardinality(DOMAIN b.grid[0])

SudokuColIter_new(col, current_row) ==
    [kind |-> "col", col |-> col, current_row |-> current_row]

SudokuRowIter_new(row, current_col) ==
    [kind |-> "row", row |-> row, current_col |-> current_col]

SudokuSecIter_new(start_row, start_col) ==
    [kind |-> "sec", start_row |-> start_row, start_col |-> start_col,
     current_row |-> start_row, current_col |-> start_col, done |-> FALSE]

col_iter(b, col) == SudokuColIter_new(col, 0)

row_iter(b, row) == SudokuRowIter_new(row, 0)

sec_iter_unaligned(b, col, row) == SudokuSecIter_new(row, col)

sec_iter(b, col, row) ==
    LET first_row_in_sec == (row \div b.sec_height) * b.sec_height
        first_col_in_sec == (col \div b.sec_width) * b.sec_width
    IN  SudokuSecIter_new(first_row_in_sec, first_col_in_sec)

\* What one next() call does: it panics, or returns an item (None once the
\* iterator is exhausted, else Some(cell)) and leaves the iterator in state
\* iter; at is the (col, row) it passed to get.
Exhausted(it) == [panic |-> FALSE, iter |-> it, item |-> None, at |-> <<>>]

Yield(b, it, col, row) ==
    LET c == get(b.grid, col, row)
    IN  IF c.panic THEN [panic |-> TRUE, at |-> <<col, row>>]
        ELSE [panic |-> FALSE, iter |-> it, item |-> Some(c.value), at |-> <<col, row>>]

SudokuColIter_next(b, it) ==
    IF it.current_row = height(b) THEN Exhausted(it)
    ELSE Yield(b, [it EXCEPT !.current_row = @ + 1], it.col, it.current_row)

SudokuRowIter_next_short(b, it) ==
    IF it.current_col = width(b) - 1 THEN Exhausted(it)
    ELSE Yield(b, [it EXCEPT !.current_col = @ + 1], it.current_col, it.row)

SudokuRowIter_next(b, it) ==
    IF it.current_col = width(b) THEN Exhausted(it)
    ELSE Yield(b, [it EXCEPT !.current_col = @ + 1], it.current_col, it.row)

SudokuSecIter_next(b, it) ==
    IF it.done THEN Exhausted(it)
    ELSE IF it.current_col = it.start_col + b.sec_width - 1
    THEN IF it.current_row = it.start_row + b.sec_height - 1
         THEN Yield(b, [it EXCEPT !.done = TRUE], it.current_col, it.current_row)
         ELSE Yield(b, [it EXCEPT !.current_col = it.start_col, !.current_row = @ + 1],
                    it.current_col, it.current_row)
    ELSE Yield(b, [it EXCEPT !.current_col = @ + 1], it.current_col, it.current_row)

IteratorNext(b, it) ==
    CASE it.kind = "col" -> SudokuColIter_next(b, it)
      [] it.kind = "row" -> SudokuRowIter_next(b, it)
      [] it.kind = "sec" -> SudokuSecIter_next(b, it)

\* Iterator::filter(..).count(): next() until None, counting the items equal
\* to Some(value); a panic of next() is the panic of the whole count.
RECURSIVE FilterCount(_, _, _, _)
FilterCount(b, it, value, n) ==
    LET r == IteratorNext(b, it)
    IN  IF r.panic THEN Panic
        ELSE IF r.item = None THEN Return(n)
        ELSE FilterCount(b, r.iter, value, IF r.item[1] = Some(value) THEN n + 1 ELSE n)

----------------------------------------------------------------------------
(* The validator *)

count_in_row(b, row, value) == FilterCount(b, row_iter(b, row), value, 0)

count_in_col(b, col, value) == FilterCount(b, col_iter(b, col), value, 0)

count_in_sec(b, col, row, value) == FilterCount(b, sec_iter(b, col, row), value, 0)

\* (0..n).step_by(step) as a sequence
StepBy(n, step) == [i \in 1 .. ((n + step - 1) \div step) |-> (i - 1) * step]

\* flat_map over a sequence of sequences
RECURSIVE Flatten(_)
Flatten(ss) == IF ss = <<>> THEN <<>> ELSE Head(ss) \o Flatten(Tail(ss))

\* the counts is_solved compares with 1 for value v, in the order it makes them
ChecksFor(b, v) ==
    LET rows == [i \in 1 .. height(b) |-> count_in_row(b, i - 1, v)]
        cols == [i \in 1 .. width(b) |-> count_in_col(b, i - 1, v)]
        srow == StepBy(height(b), b.sec_height)
        scol == StepBy(width(b), b.sec_width)
        secs == Flatten([i \in 1 .. Len(srow) |->
                          [j \in 1 .. Len(scol) |-> count_in_sec(b, scol[j], srow[i], v)]])
    IN  rows \o cols \o secs

\* is_solved returns false at the first count that is not 1 and panics if a
\* count panics before that
is_solved(b) ==
    LET checks == Flatten([v \in 1 .. b.size |-> ChecksFor(b, v)])
        stops == {i \in 1 .. Len(checks) : checks[i].panic \/ checks[i].value # 1}
    IN  IF stops = {} THEN Return(TRUE)
        ELSE LET i == CHOOSE k \in stops : \A j \in stops : k <= j
             IN  IF checks[i].panic THEN Panic ELSE Return(FALSE)

can_place_value(b, col, row, value) ==
    IF get(b.grid, col, row) = Return(Some(value)) THEN Return(TRUE)
    ELSE LET c == count_in_col(b, col, value)
             r == count_in_row(b, row, value)
             x == count_in_sec(b, col, row, value)
         IN  IF c.panic \/ r.panic \/ x.panic THEN Panic
             ELSE Return(c.value + r.value + x.value = 0)

----------------------------------------------------------------------------
(* <Sudoku as Debug>::fmt.  A line is a sequence of glyphs; the box-drawing *)
(* glyphs are written with ASCII names.                                     *)

GlyphV == "|"       \* U+2502, vertical border and separator
GlyphH == "-"       \* U+2500, horizontal filler and empty cell
TopGlyphs == [left |-> "TL", right |-> "TR", inner |-> "TT"]       \* U+250C U+2510 U+252C
MiddleGlyphs == [left |-> "ML", right |-> "MR", inner |-> "MX"]    \* U+251C U+2524 U+253C
BottomGlyphs == [left |-> "BL", right |-> "BR", inner |-> "BT"]    \* U+2514 U+2518 U+2534

DigitChar(d) == <<"0", "1", "2", "3", "4", "5", "6", "7", "8", "9">>[d + 1]

\* to_string of an unsigned integer
RECURSIVE to_string(_)
to_string(n) == IF n < 10 THEN <<DigitChar(n)>> ELSE to_string(n \div 10) \o <<DigitChar(n % 10)>>

Repeat(c, k) == [i \in 1 .. k |-> c]

\* col_value_output: value_length - c.to_string().len() is a usize
\* subtraction; when it underflows a build with overflow checks panics and
\* a build without asks for 2^64 - 1 padding strings, which cannot be
\* allocated: either way fmt ends in a fault before it writes a line.
ColValueOutput(cell, value_length) ==
    IF cell = None THEN Return(Repeat(GlyphH, value_length))
    ELSE LET digits == to_string(cell[1])
         IN  IF Len(digits) > value_length THEN Panic
             ELSE Return(Repeat(" ", value_length - Len(digits)) \o digits)

\* [String]::join(sep)
RECURSIVE Join(_, _)
Join(pieces, sep) ==
    IF pieces = <<>> THEN <<>>
    ELSE IF Len(pieces) = 1 THEN pieces[1]
    ELSE pieces[1] \o sep \o Join(Tail(pieces), sep)

\* one element of row_outputs, for a row none of whose cells panics
RowOutput(b, row, value_length) ==
    LET pieces == Flatten([i \in 1 .. width(b) |->
                     LET col_index == i - 1
                         out == ColValueOutput(b.grid[row][col_index], value_length).value
                     IN  IF col_index > 0 /\ col_index % b.sec_width = 0
                         THEN <<<<GlyphV>>, out>>
                         ELSE <<out>>])
    IN  <<GlyphV, " ">> \o Join(pieces, <<" ">>) \o <<" ", GlyphV>>

\* a border line: row_outputs[0] with its glyphs replaced
Border(first, glyphs) ==
    [idx \in 1 .. Len(first) |->
        IF first[idx] = GlyphV
        THEN IF idx - 1 = 0 THEN glyphs.left
             ELSE IF idx - 1 = Len(first) - 1 THEN glyphs.right
             ELSE glyphs.inner
        ELSE GlyphH]

\* the while loop of lines 229-286, from row on, appending to out
RECURSIVE FmtLoop(_, _, _, _)
FmtLoop(b, row_outputs, row, out) ==
    IF ~(row < height(b)) THEN out
    ELSE LET border == IF row % b.sec_height = 0
                       THEN IF row = 0
                            THEN <<Border(row_outputs[1], TopGlyphs)>>
                            ELSE <<Border(row_outputs[1], MiddleGlyphs)>>
                       ELSE <<>>
             next == row + 1
             bottom == IF next % b.sec_height = 0 /\ next = height(b)
                       THEN <<Border(row_outputs[1], BottomGlyphs)>>
                       ELSE <<>>
         IN  FmtLoop(b, row_outputs, next, out \o border \o <<row_outputs[row + 1]>> \o bottom)

\* the lines fmt writes, or its panic
fmt(b) ==
    LET value_length == Len(to_string(b.size))
    IN  IF \E row \in DOMAIN b.grid : \E col \in DOMAIN b.grid[row] :
              ColValueOutput(b.grid[row][col], value_length).panic
        THEN Panic
        ELSE LET row_outputs == [i \in 1 .. height(b) |-> RowOutput(b, i - 1, value_length)]
             IN  Return(FmtLoop(b, row_outputs, 0, <<>>))

----------------------------------------------------------------------------
(* The calls as actions *)

Board == Self(size, sec_width, sec_height, grid)
Cols == 0 .. (size - 1)
Rows == 0 .. (size - 1)
Args == 0 .. MaxArg

\* A call that reads the board: it returns r or panics.  It leaves the board
\* as it is, so every board is reached by the mutating calls alone; a run
\* makes one such call, as its last.
Observed == last.op \in {"is_solved", "can_place_value", "fmt"}

Query(call, r) ==
    /\ status = "board"
    /\ iter = NoIter
    /\ ~Observed
    /\ last' = call @@ [ret |-> r]
    /\ status' = IF r.panic THEN "panicked" ELSE "board"
    /\ UNCHANGED <<size, sec_width, sec_height, grid, nset, npop, iter, yielded, reads>>

IsSolved == Query([op |-> "is_solved"], is_solved(Board))

CanPlaceValue(col, row, value) ==
    Query([op |-> "can_place_value", col |-> col, row |-> row, value |-> value],
          can_place_value(Board, col, row, value))

Fmt == Query([op |-> "fmt"], fmt(Board))

\* col_iter, row_iter and sec_iter hand out an iterator that borrows the
\* board, which therefore is not mutated while the iterator lives
MakeIter(call, it) ==
    /\ status = "board"
    /\ iter = NoIter
    /\ iter' = it
    /\ last' = call
    /\ yielded' = <<>>
    /\ reads' = <<>>
    /\ UNCHANGED <<size, sec_width, sec_height, grid, status, nset, npop>>

ColIter(col) == MakeIter([op |-> "col_iter", col |-> col], col_iter(Board, col))

RowIter(row) == MakeIter([op |-> "row_iter", row |-> row], row_iter(Board, row))

SecIter(col, row) ==
    MakeIter([op |-> "sec_iter", col |-> col, row |-> row], sec_iter(Board, col, row))

\* how many next() calls reported exhaustion
Exhaustions == Cardinality({i \in 1 .. Len(yielded) : yielded[i] = None})

\* one next() call on the live iterator
IterNext ==
    /\ status = "board"
    /\ iter # NoIter
    /\ Exhaustions <= MaxExtraNext
    /\ LET r == IteratorNext(Board, iter)
       IN  IF r.panic
           THEN /\ status' = "panicked"
                /\ reads' = Append(reads, r.at)
                /\ UNCHANGED <<iter, yielded>>
           ELSE /\ iter' = r.iter
                /\ yielded' = Append(yielded, r.item)
                /\ reads' = IF r.at = <<>> THEN reads ELSE Append(reads, r.at)
                /\ UNCHANGED status
    /\ UNCHANGED <<size, sec_width, sec_height, grid, last, nset, npop>>

NewBoard == \E s \in Args, w \in Args, h \in Args : New(s, w, h)

\* A populate_from_str that completes overwrites every cell, so the runs
\* populate before they set.
Mutate ==
    /\ ~Observed
    /\ \/ \E col \in Cols, row \in Rows, v \in CellValues(size) : Set(col, row, v)
       \/ nset = 0 /\ \E s \in FittingTexts(size) : Populate(s)

\* The board under set and populate_from_str (on the texts with size lines).
NextBoard == NewBoard \/ Mutate

Spec == Start /\ [][NextBoard]_vars

\* populate_from_str on every enumerated text, also over what an earlier
\* call left in the grid.
NextPopulate == NewBoard \/ \E s \in Texts : Populate(s)

SpecPopulate == Start /\ [][NextPopulate]_vars

\* The validator and the renderer on the boards the mutating calls reach.
NextValidate ==
    \/ NewBoard
    \/ Mutate
    \/ IsSolved
    \/ \E col \in Cols, row \in Rows, value \in 0 .. (size + 1) : CanPlaceValue(col, row, value)
    \/ Fmt

SpecValidate == Start /\ [][NextValidate]_vars

\* The iterators on empty and on populated boards.
NextIter ==
    \/ NewBoard
    \/ \E s \in FittingTexts(size) : Populate(s)
    \/ \E col \in Cols : ColIter(col)
    \/ \E row \in Rows : RowIter(row)
    \/ \E col \in Cols, row \in Rows : SecIter(col, row)
    \/ IterNext

SpecIter == Start /\ [][NextIter]_vars

----------------------------------------------------------------------------
(* Properties *)

InDomain(cell) == cell = None \/ cell[1] \in 1 .. size

\* the cells of the section that contains (col, row)
SectionOf(col, row) ==
    {<<c, r>> \in Cols \X Rows :
        c \div sec_width = col \div sec_width /\ r \div sec_height = row \div sec_height}

\* what Sudoku::new is to return for (s, w, h), by the mathematical product
NewExpected(s, w, h) ==
    IF s < 1 THEN Err("InvalidSize")
    ELSE IF w < 1 THEN Err("InvalidSecWidth")
    ELSE IF h < 1 THEN Err("InvalidSecHeight")
    ELSE IF w * h # s THEN Err("InvalidCombination")
    ELSE Ok

\* C1: for every triple of machine words Sudoku::new returns and never
\* faults: the first failing check's error, InvalidCombination when the
\* mathematical product sec_width * sec_height differs from size, and
\* otherwise a size x size board of empty cells.
C1_NewReturnsForEveryTriple ==
    last.op = "new" =>
        /\ ~last.ret.panic
        /\ last.ret.value = NewExpected(last.size, last.sec_width, last.sec_height)
        /\ last.ret.value.ok =>
              /\ status = "board"
              /\ size = last.size
              /\ grid = [row \in 0 .. (size - 1) |-> [col \in 0 .. (size - 1) |-> None]]

\* C2: in every state reached from a constructed board by set and
\* populate_from_str calls, every non-empty cell holds a value in [1, size]
\* (set refuses a value outside that range).
C2_StoredValuesInDomain ==
    status \in {"board", "panicked"} =>
        \A row \in DOMAIN grid : \A col \in DOMAIN grid[row] : InDomain(grid[row][col])

\* how often value v occurs in the cells of set S
Occurrences(S, v) == Cardinality({p \in S : grid[p[2]][p[1]] = Some(v)})

Solved ==
    \A v \in 1 .. size :
        /\ \A row \in Rows : Occurrences(Cols \X {row}, v) = 1
        /\ \A col \in Cols : Occurrences({col} \X Rows, v) = 1
        /\ \A col \in Cols, row \in Rows : Occurrences(SectionOf(col, row), v) = 1

\* C3: for every board state is_solved() returns, and returns true exactly
\* when every value of 1..=size occurs exactly once in every row, every
\* column and every section.
C3_IsSolvedIffSolved ==
    last.op = "is_solved" => ~last.ret.panic /\ (last.ret.value <=> Solved)

\* C3 on the boards whose sections tile the grid.
IsSolvedOnValidBoards ==
    last.op = "is_solved" /\ sec_width * sec_height = size =>
        ~last.ret.panic /\ (last.ret.value <=> Solved)

Placeable(col, row, v) ==
    \/ grid[row][col] = Some(v)
    \/ /\ Occurrences(Cols \X {row}, v) = 0
       /\ Occurrences({col} \X Rows, v) = 0
       /\ Occurrences(SectionOf(col, row), v) = 0

\* C4: for every board state, in-range (col, row) and value v,
\* can_place_value(col, row, v) returns true if the cell holds v, and
\* otherwise exactly when v occurs nowhere in the row, the column and the
\* section of (col, row).
C4_CanPlaceValue ==
    last.op = "can_place_value" =>
        ~last.ret.panic /\ (last.ret.value <=> Placeable(last.col, last.row, last.value))

\* C4 on the boards whose sections tile the grid.
CanPlaceValueOnValidBoards ==
    last.op = "can_place_value" /\ sec_width * sec_height = size =>
        ~last.ret.panic /\ (last.ret.value <=> Placeable(last.col, last.row, last.value))

\* C6: a set(col, row, v) with v empty or in [1, size] makes get(col, row)
\* return v and changes nothing else: no other cell, not size, sec_width or
\* sec_height, not the size x size shape of the grid.
C6_SetThenGet ==
    [][ (nset' = nset + 1 /\ InDomain(last'.v)) =>
          /\ get(grid', last'.col, last'.row) = Return(last'.v)
          /\ \A row \in Rows : \A col \in Cols :
                <<col, row>> # <<last'.col, last'.row>> => grid'[row][col] = grid[row][col]
          /\ <<size', sec_width', sec_height'>> = <<size, sec_width, sec_height>>
          /\ DOMAIN grid' = Rows
          /\ \A row \in Rows : DOMAIN grid'[row] = Cols ]_vars

\* a set has stored a value of [1, size] in a board that holds other values
C6_Witness ==
    /\ last.op = "set"
    /\ last.v # None /\ InDomain(last.v)
    /\ get(grid, last.col, last.row) = Return(last.v)
    /\ \E row \in Rows : \E col \in Cols :
          <<col, row>> # <<last.col, last.row>> /\ grid[row][col] # None

\* The text format in the claim's words: lines between newline characters,
\* tokens as maximal runs of non-whitespace, a numeral as decimal digits.
NewlinePositions(s) == {i \in 1 .. Len(s) : s[i] = NL}

LineCount(s) == Cardinality(NewlinePositions(s)) + 1

\* the k-th smallest element of S, counted from 0
Nth(S, k) == CHOOSE p \in S : Cardinality({q \in S : q < p}) = k

\* line k of s, counted from 0
TextLine(s, k) ==
    LET bounds == {0} \cup NewlinePositions(s) \cup {Len(s) + 1}
    IN  SubSeq(s, Nth(bounds, k) + 1, Nth(bounds, k + 1) - 1)

TokenStarts(line) ==
    {i \in 1 .. Len(line) : ~IsWhitespace(line[i]) /\ (i = 1 \/ IsWhitespace(line[i - 1]))}

TokenEnds(line) ==
    {i \in 1 .. Len(line) : ~IsWhitespace(line[i]) /\ (i = Len(line) \/ IsWhitespace(line[i + 1]))}

\* token k of a line, counted from 0
TokenAt(line, k) == SubSeq(line, Nth(TokenStarts(line), k), Nth(TokenEnds(line), k))

RECURSIVE StripZeros(_)
StripZeros(digits) ==
    IF Len(digits) > 1 /\ digits[1] = "0" THEN StripZeros(Tail(digits)) ELSE digits

\* tok is a decimal numeral of the integer k: digits, with or without a
\* plus sign and leading zeros
Denotes(tok, k) ==
    LET digits == IF tok # <<>> /\ tok[1] = "+" THEN Tail(tok) ELSE tok
    IN  digits # <<>> /\ StripZeros(digits) = to_string(k)

CellToken(tok, n) == tok = <<"_">> \/ \E k \in 1 .. n : Denotes(tok, k)

WellFormedText(s, n) ==
    /\ LineCount(s) = n
    /\ \A row \in 0 .. (n - 1) :
          /\ Cardinality(TokenStarts(TextLine(s, row))) = n
          /\ \A col \in 0 .. (n - 1) : CellToken(TokenAt(TextLine(s, row), col), n)

CellOfToken(tok, n) ==
    IF tok = <<"_">> THEN None ELSE Some(CHOOSE k \in 1 .. n : Denotes(tok, k))

\* C7: populate_from_str(text) completes exactly when text has size lines
\* of size tokens, each "_" or a decimal integer of [1, size], and faults
\* otherwise; when it completes, every cell is empty for "_" and else holds
\* its token's integer, whatever the grid held before.
C7_PopulateFromStr ==
    last.op = "populate_from_str" =>
        /\ ~last.panic <=> WellFormedText(last.s, size)
        /\ (status = "panicked") <=> last.panic
        /\ ~last.panic =>
              \A row \in Rows : \A col \in Cols :
                 grid[row][col] = CellOfToken(TokenAt(TextLine(last.s, row), col), size)

\* a second populate_from_str has completed on a board of size 2 or more
\* and left both an empty and a non-empty cell
C7_Witness ==
    /\ last.op = "populate_from_str"
    /\ ~last.panic
    /\ npop = 2
    /\ size >= 2
    /\ \E row \in Rows : \E col \in Cols : grid[row][col] = None
    /\ \E row \in Rows : \E col \in Cols : grid[row][col] # None

\* C8: next() on row_iter(r) yields get(0, r), get(1, r), ... in increasing
\* column order, exactly size elements, and then reports exhaustion; next()
\* on col_iter(c) likewise yields get(c, 0), get(c, 1), ... and then
\* reports exhaustion.
C8_RowAndColIter ==
    iter.kind \in {"row", "col"} =>
        /\ status = "board"
        /\ Len(reads) = (IF Len(yielded) < size THEN Len(yielded) ELSE size)
        /\ \A i \in 1 .. Len(yielded) :
              LET at == IF iter.kind = "row" THEN <<i - 1, last.row>> ELSE <<last.col, i - 1>>
              IN  IF i <= size
                  THEN yielded[i] = Some(grid[at[2]][at[1]]) /\ reads[i] = at
                  ELSE yielded[i] = None

\* a column iterator over a column with an empty and a non-empty cell has
\* yielded all of it and reported exhaustion
C8_Witness ==
    /\ iter.kind = "col"
    /\ Len(yielded) > size
    /\ \E i \in 1 .. size : yielded[i] = Some(None)
    /\ \E i \in 1 .. size : yielded[i] # Some(None)

\* C9: on a board with sec_width * sec_height = size, next() on
\* sec_iter(col, row) yields the sec_width * sec_height cells of the
\* rectangle whose top-left corner is (floor(col / sec_width) * sec_width,
\* floor(row / sec_height) * sec_height), row by row and left to right, then
\* reports exhaustion, and never reads outside the board or the rectangle.
C9_SecIter ==
    (iter.kind = "sec" /\ sec_width * sec_height = size) =>
        LET left == (last.col \div sec_width) * sec_width
            top == (last.row \div sec_height) * sec_height
            n == sec_width * sec_height
        IN  /\ status = "board"
            /\ Len(reads) = (IF Len(yielded) < n THEN Len(yielded) ELSE n)
            /\ \A i \in 1 .. Len(reads) :
                  /\ reads[i] \in Cols \X Rows
                  /\ reads[i] \in SectionOf(last.col, last.row)
            /\ \A i \in 1 .. Len(yielded) :
                  LET at == <<left + ((i - 1) % sec_width), top + ((i - 1) \div sec_width)>>
                  IN  IF i <= n
                      THEN yielded[i] = Some(grid[at[2]][at[1]]) /\ reads[i] = at
                      ELSE yielded[i] = None

\* the section iterator of a cell in the last section column and the last
\* section row, on a board whose sections are at least 2 wide and 2 high,
\* has yielded its whole section and reported exhaustion
C9_Witness ==
    /\ iter.kind = "sec"
    /\ sec_width * sec_height = size
    /\ sec_width >= 2 /\ sec_height >= 2
    /\ last.col >= size - sec_width /\ last.row >= size - sec_height
    /\ Len(yielded) > size
    /\ \E i \in 1 .. size : yielded[i] # Some(None)

LineKind(line) ==
    CASE line[1] = TopGlyphs.left -> "top"
      [] line[1] = MiddleGlyphs.left -> "divider"
      [] line[1] = BottomGlyphs.left -> "bottom"
      [] OTHER -> "row"

FmtLinesInOrder(out) ==
    /\ Len(out) = size + (size \div sec_height) + 1
    /\ LineKind(out[1]) = "top"
    /\ LineKind(out[Len(out)]) = "bottom"
    /\ Cardinality({i \in 1 .. Len(out) : LineKind(out[i]) # "row"}) = (size \div sec_height) + 1
    /\ \A r \in Rows :
          LET at == r + (r \div sec_height) + 2
          IN  /\ out[at] = RowOutput(Board, r, Len(to_string(size)))
              /\ LineKind(out[at]) = "row"
              /\ (r > 0 /\ r % sec_height = 0) => LineKind(out[at - 1]) = "divider"

\* C10: for every board with sec_width * sec_height = size the renderer
\* emits a top line, the size rows in increasing order with one divider
\* line before every row r > 0 with r % sec_height = 0 and no other border
\* line, and one bottom line: size + size / sec_height + 1 lines.
C10_FmtLineOrder ==
    (last.op = "fmt" /\ sec_width * sec_height = size) =>
        ~last.ret.panic /\ FmtLinesInOrder(last.ret.value)

\* C10 on the boards that also hold only values of [1, size].
FmtLineOrderOnDomainBoards ==
    (/\ last.op = "fmt"
     /\ sec_width * sec_height = size
     /\ \A row \in Rows : \A col \in Cols : InDomain(grid[row][col])) =>
        ~last.ret.panic /\ FmtLinesInOrder(last.ret.value)

====
